---- MODULE Spec2Model ----
(***************************************************************************)
(* Field identity resolution and batch ingestion of the Pyxis backend      *)
(* (backend/app/services/data_entry_service.py, backend/app/utils/         *)
(* merge_utils.py, backend/app/api/routes/data_entries.py).                *)
(*                                                                         *)
(* The database is modelled as its committed tables plus, per request, the *)
(* uncommitted work of that request's SQLAlchemy session (the session is   *)
(* created per request by get_postgres_db with autoflush=False and is      *)
(* handed on to the background task).  Queries see the committed rows and  *)
(* the rows the own session has flushed (PostgreSQL READ COMMITTED, no     *)
(* isolation level or row lock is set anywhere in the service).            *)
(***************************************************************************)
EXTENDS Integers, Sequences, FiniteSets, TLC

\* Python None / SQL NULL, one per type of value: an absent name, an absent
\* centroid cell, an absent country, no matching field.
NoName == <<0>>

NoCell == -1

NoCountry == "None"

NoMatch == 0

Max2(a, b) == IF a >= b THEN a ELSE b

Abs(x) == IF x < 0 THEN 0 - x ELSE x

SeqToSet(s) == {s[k] : k \in 1..Len(s)}

\* All orders in which the rows of a set can be returned by a query that has
\* no ORDER BY.
Orders(S) ==
  {q \in [1..Cardinality(S) -> S] : \A a, b \in 1..Cardinality(S) : a # b => q[a] # q[b]}

(***************************************************************************)
(* Names.  A name is a sequence of letters; letters 1..9 are lower case,   *)
(* letter 10 + k is the upper case form of letter k.                       *)
(***************************************************************************)
LowerChar(c) == IF c > 10 THEN c - 10 ELSE c

\* str(name).lower()
Lower(s) == [k \in 1..Len(s) |-> LowerChar(s[k])]

RECURSIVE LcsLen(_, _)
\* Number of matching characters of two strings (the matching blocks the
\* sequence matcher behind fuzz.ratio adds up).
LcsLen(s, t) ==
  IF s = <<>> \/ t = <<>> THEN 0
  ELSE IF Head(s) = Head(t) THEN 1 + LcsLen(Tail(s), Tail(t))
  ELSE Max2(LcsLen(Tail(s), t), LcsLen(s, Tail(t)))

\* round(): to the nearest integer, halves to the even neighbour.
RoundDiv(n, d) ==
  LET q == n \div d
      r == n % d
  IN  IF 2 * r > d THEN q + 1
      ELSE IF 2 * r = d THEN q + (q % 2)
      ELSE q

\* fuzz.ratio(s, t): 100 for equal strings, 0 when one is empty, otherwise
\* round(100 * 2 * matches / (len(s) + len(t))).
FuzzRatio(s, t) ==
  IF s = t THEN 100
  ELSE IF s = <<>> \/ t = <<>> THEN 0
  ELSE RoundDiv(200 * LcsLen(s, t), Len(s) + Len(t))

(***************************************************************************)
(* Cells.  A centroid cell is a position on a line of hexagons: the grid   *)
(* distance of two cells is the number of hops between them.  Cells of     *)
(* Remote lie where h3_distance cannot relate them to any other cell and   *)
(* raises ValueError.                                                      *)
(***************************************************************************)
Remote == {900}

\* h3.h3_distance raises ValueError
H3DistanceRaises(a, b) == a # b /\ (a \in Remote \/ b \in Remote)

H3Distance(a, b) == Abs(a - b)

\* 1000 * 100 * exp(-0.5 * (d * 0.1)^2) for d = 0..49, rounded.
GaussMilli ==
  << 100000, 99501, 98020, 95600, 92312, 88250, 83527, 78270, 72615, 66698,
     60653, 54607, 48675, 42956, 37531, 32465, 27804, 23575, 19790, 16447,
     13534, 11025, 8892, 7101, 5613, 4394, 3405, 2612, 1984, 1492,
     1111, 819, 598, 432, 309, 219, 153, 106, 73, 50,
     34, 22, 15, 10, 6, 4, 3, 2, 1, 1 >>

MATCH_SCORE_THRESHOLD == 60

\* MATCH_WEIGHTS = [0.7, 0.3], in tenths.
NameWeight == 7

GeoWeight == 3

\* grid distances from this one on are penalised
FarDistance == 50

\* the geo score of a far or incomputable distance
GeoPenalty == -40

\* Scores are kept in units of 1/10000 so that they stay integers.
ScoreUnit == 10000

NameScore(name1, name2) ==
  IF name1 # NoName /\ name2 # NoName THEN FuzzRatio(Lower(name1), Lower(name2)) ELSE 0

\* A geo score without the penalty: a far or incomputable distance counts 0.
GeoScoreWithoutPenalty(index1, index2) ==
  IF index1 # NoCell /\ index2 # NoCell
  THEN IF H3DistanceRaises(index1, index2) THEN 0
       ELSE IF H3Distance(index1, index2) < FarDistance
            THEN GaussMilli[H3Distance(index1, index2) + 1]
       ELSE 0
  ELSE 0

\* in units of 1/1000
GeoScoreMilli(index1, index2) ==
  IF index1 # NoCell /\ index2 # NoCell
  THEN IF H3DistanceRaises(index1, index2) THEN GeoPenalty * 1000
       ELSE IF H3Distance(index1, index2) < FarDistance
            THEN GaussMilli[H3Distance(index1, index2) + 1]
       ELSE GeoPenalty * 1000
  ELSE 0

\* calculate_match_score, in units of 1/10000
CalculateMatchScore(name1, name2, index1, index2) ==
  NameWeight * 1000 * NameScore(name1, name2) + GeoWeight * GeoScoreMilli(index1, index2)

RECURSIVE ScanLastAccepted(_, _, _, _, _, _)
\* A scan that keeps the last candidate reaching the threshold instead of the
\* best one.
ScanLastAccepted(order, k, name, cell, table, best) ==
  IF k > Len(order) THEN best
  ELSE LET field == table[order[k]]
           score == CalculateMatchScore(name, field.name, cell, field.cell)
       IN  ScanLastAccepted(order, k + 1, name, cell, table,
                            IF score >= MATCH_SCORE_THRESHOLD * ScoreUnit
                            THEN [match |-> order[k], score |-> score]
                            ELSE best)

RECURSIVE ScanBest(_, _, _, _, _, _)
\* The scan loop of find_matching_field over the candidates in the order the
\* query returned them: a candidate replaces the best one only when its score
\* is strictly greater.
ScanBest(order, k, name, cell, table, best) ==
  IF k > Len(order) THEN best
  ELSE LET field == table[order[k]]
           score == CalculateMatchScore(name, field.name, cell, field.cell)
       IN  ScanBest(order, k + 1, name, cell, table,
                    IF score > best.score THEN [match |-> order[k], score |-> score]
                    ELSE best)

\* A query that filters by country even when the observation has none.
SameCountryOnly(country, table) ==
  {id \in DOMAIN table : table[id].country = country}

\* The rows of pyxis_field_meta the query of find_matching_field returns:
\* those of the country when the observation has one, all rows otherwise.
PotentialMatches(country, table) ==
  {id \in DOMAIN table : country = NoCountry \/ table[id].country = country}

\* A lookup without the guard on the name and without the threshold.
FindBestField(name, country, cell, table, order) ==
  ScanBest(order, 1, name, cell, table, [match |-> NoMatch, score |-> 0])

\* find_matching_field for one order of the query result: [match, score].
FindMatchingField(name, country, cell, table, order) ==
  IF name = NoName \/ name = <<>> THEN [match |-> NoMatch, score |-> 0]
  ELSE LET best == ScanBest(order, 1, name, cell, table, [match |-> NoMatch, score |-> 0])
       IN  IF best.match # NoMatch /\ best.score >= MATCH_SCORE_THRESHOLD * ScoreUnit
           THEN best
           ELSE [match |-> NoMatch, score |-> best.score]

(***************************************************************************)
(* Merge utilities.  A list of values is kept as a bag (value -> number of *)
(* occurrences): the merge methods used here do not depend on the order of *)
(* the list.                                                               *)
(***************************************************************************)

NullOf(attr) == IF attr = "name" THEN NoName ELSE NoCountry

\* extract_values_for_attribute: the non-null values of an attribute.
ExtractValuesForAttribute(records, attr) ==
  [v \in {o[attr] : o \in records} \ {NullOf(attr)} |->
     Cardinality({o \in records : o[attr] = v})]

\* merge_most_frequent: max(set(values), key=values.count).  Among values of
\* equal count the iteration order of the set decides, which the program does
\* not control: every value of maximal count is a possible result.
MergeMostFrequent(values) ==
  {v \in DOMAIN values : \A w \in DOMAIN values : values[w] <= values[v]}

\* merge_specific_attributes for one of the attributes name and country (no
\* rule file entry is needed: the fallback is merge_most_frequent as well):
\* the possible merged values; the null value stands for an attribute that
\* is left out of the result because no record carries a value.
MergeSpecificAttribute(records, attr) ==
  LET values == ExtractValuesForAttribute(records, attr)
  IN  IF DOMAIN values = {} THEN {NullOf(attr)} ELSE MergeMostFrequent(values)

(***************************************************************************)
(* Geometries.  A polygon is the set of cells of the line it covers; the   *)
(* union of polygons that do not touch is a multipolygon.  An empty        *)
(* polygon (POLYGON EMPTY) covers nothing.                                 *)
(***************************************************************************)

\* Python None / SQL NULL for a geometry and for a numeric attribute.
NoGeom == [kind |-> "none", cover |-> {}]

NoValue == -1

\* The polygon covering the cells of a set.
Polygon(cover) == [kind |-> "polygon", cover |-> cover]

SetMin(S) == CHOOSE x \in S : \A y \in S : x <= y

SetMax(S) == CHOOSE x \in S : \A y \in S : y <= x

RECURSIVE SetSum(_)
SetSum(S) == IF S = {} THEN 0 ELSE LET x == CHOOSE y \in S : TRUE IN x + SetSum(S \ {x})

\* The cells of a set lie side by side.
Connected(S) == S # {} /\ Cardinality(S) = SetMax(S) - SetMin(S) + 1

\* unary_union: a polygon when the parts touch, a multipolygon otherwise.
UnaryUnion(geoms) ==
  LET cover == UNION {g.cover : g \in geoms}
  IN  [kind |-> IF cover = {} \/ Connected(cover) THEN "polygon" ELSE "multipolygon",
       cover |-> cover]

\* h3.geo_to_h3 of the centroid of a geometry that is not empty.
CentroidCell(geom) == SetSum(geom.cover) \div Cardinality(geom.cover)

\* A dissolve without the checks for nothing to merge: the union, whatever
\* it covers, and no cell.
DissolveUnguarded(geoms) == [geom |-> UnaryUnion(geoms), cell |-> NoCell]

\* merge_geometry: [geom, cell] of the union of the geometries, or (None,
\* None) when there is no geometry or when the centroid of the union cannot
\* be taken (the union is empty: the exception is caught and logged).
MergeGeometry(geoms) ==
  IF geoms = {} THEN [geom |-> NoGeom, cell |-> NoCell]
  ELSE LET merged == UnaryUnion(geoms)
       IN  IF merged.cover = {} THEN [geom |-> NoGeom, cell |-> NoCell]
           ELSE [geom |-> merged, cell |-> CentroidCell(merged)]

\* h3.polyfill of the polygons of a geometry at the fixed resolution.
Polyfill(geom) == geom.cover

\* A merge that leaves the cells of the field as they are.
KeepFieldH3Indices(geom, fill) == fill

\* update_field_h3_indices: the cell set of a field after the call, given
\* the geometry the field carries and the cell set stored so far.  Nothing
\* is replaced when the field has no geometry, when the geometry is neither
\* a polygon nor a multipolygon, or when the fill is empty.
UpdateFieldH3Indices(geom, fill) ==
  IF geom = NoGeom THEN fill
  ELSE IF geom.kind \notin {"polygon", "multipolygon"} THEN fill
  ELSE IF Polyfill(geom) = {} THEN fill
  ELSE Polyfill(geom)

(***************************************************************************)
(* State.                                                                  *)
(***************************************************************************)
VARIABLES
  entries,     \* data_entry table: entry id -> [status, error] (committed)
  uploads,     \* data_entry.file_extension and the rows of data_entry.raw_data
  metas,       \* pyxis_field_meta table: id -> [name, country, cell, geom], with
               \* the cells pyxis_field_h3 holds for the id as fill (committed)
  datas,       \* pyxis_field_data table: set of observations (committed)
  nextMetaId,  \* the id sequence of pyxis_field_meta
  req,         \* per request to POST /{id}/process: the position of the request
               \* and of its background task, and the state of its session.
               \* pc: absent (never made), idle, loaded, rejected, scheduled, rows, merge, committed,
               \* and how the task ended: done (COMPLETED stored), failed
               \* (FAILED stored), raised (an exception left the task).
  calc         \* a direct call of one function of the service: the function,
               \* its arguments and, once it has returned, its result

vars == <<entries, uploads, metas, datas, nextMetaId, req, calc>>

\* No function is called directly.
NoCalc == [fn |-> "none"]

Entries == {1, 2}

Requests == {1, 2, 3}

\* the most rows an uploaded file holds
MaxRows == 2

Some(v) == <<v>>

Nothing == <<>>

NoCall ==
  [made |-> FALSE, name |-> NoName, country |-> NoCountry, cell |-> NoCell,
   table |-> <<>>, match |-> NoMatch, score |-> 0, id |-> NoMatch]

\* A request that has not arrived yet.
IdleRequest ==
  [pc |-> "idle", entry |-> 0, seen |-> "none", success |-> FALSE, i |-> 0,
   toMerge |-> <<>>, merged |-> <<>>, newMetas |-> <<>>, newDatas |-> {},
   upd |-> <<>>, call |-> NoCall]

\* One attribute of a row of pyxis_field_meta with a pending change applied.
Changed(current, change) == IF change = Nothing THEN current ELSE change[1]

\* A table of pyxis_field_meta with the pending attribute changes applied.
Overlay(table, updates) ==
  [id \in DOMAIN table |->
     IF id \in DOMAIN updates
     THEN [name    |-> Changed(table[id].name, updates[id].name),
           country |-> Changed(table[id].country, updates[id].country),
           cell    |-> Changed(table[id].cell, updates[id].cell),
           geom    |-> Changed(table[id].geom, updates[id].geom),
           fill    |-> Changed(table[id].fill, updates[id].fill)]
     ELSE table[id]]

\* What the queries of a session return: the committed rows, the rows the
\* session has added, and its own pending changes.
VisibleMetas(q) == Overlay(q.newMetas @@ metas, q.upd)

VisibleDatas(q) == datas \cup q.newDatas

\* The session after Session.commit() or after it was abandoned: no pending work.
Cleared(q, pc) ==
  [q EXCEPT !.pc = pc, !.newMetas = <<>>, !.newDatas = {}, !.upd = <<>>]

\* A pending observation holds a value the database rejects: the next flush
\* raises (sqlalchemy.exc.DataError).
FlushRaises(q) == \E o \in q.newDatas : o.bad

(***************************************************************************)
(* POST /data-entries/{id}/process                                         *)
(***************************************************************************)

\* process_data_entry: the route loads the data entry into the session of the
\* request.
LoadEntry(r, b) ==
  /\ req[r].pc = "idle"
  /\ req' = [req EXCEPT ![r] = [@ EXCEPT !.pc = "loaded", !.entry = b,
                                          !.seen = entries[b].status]]
  /\ UNCHANGED <<entries, uploads, metas, datas, nextMetaId, calc>>

\* A guard that only rejects an entry that is being processed.
AcceptsUnlessProcessing(status) == status # "processing"

\* The guard of trigger_data_processing on the status of the loaded entry.
TriggerAccepts(status) == status = "pending" \/ status = "failed"

\* trigger_data_processing: reject, or store PROCESSING and schedule the
\* background task.
TriggerDataProcessing(r) ==
  /\ req[r].pc = "loaded"
  /\ IF TriggerAccepts(req[r].seen)
     THEN /\ entries' = [entries EXCEPT ![req[r].entry].status = "processing"]
          /\ req' = [req EXCEPT ![r] = [@ EXCEPT !.pc = "scheduled", !.success = TRUE]]
     ELSE /\ req' = [req EXCEPT ![r] = [@ EXCEPT !.pc = "rejected", !.success = FALSE]]
          /\ UNCHANGED entries
  /\ UNCHANGED <<uploads, metas, datas, nextMetaId, calc>>

(***************************************************************************)
(* The background task                                                     *)
(***************************************************************************)

\* The except and finally clauses of process_data_entry_background after an
\* exception that left the session usable: FAILED and the message are set and
\* Session.commit() flushes and commits them together with whatever the
\* session holds.  When that flush raises, the commit raises out of the task
\* and the transaction is rolled back.
HandleException(r, q) ==
  IF FlushRaises(q)
  THEN /\ req' = [req EXCEPT ![r] = Cleared(q, "raised")]
       /\ UNCHANGED <<entries, metas, datas>>
  ELSE /\ entries' = [entries EXCEPT ![q.entry] =
                        [status |-> "failed", error |-> "Processing error"]]
       /\ metas' = VisibleMetas(q)
       /\ datas' = VisibleDatas(q)
       /\ req' = [req EXCEPT ![r] = Cleared(q, "failed")]

\* The same clauses after a flush has raised: the session's transaction is
\* inactive until Session.rollback() is called, which the task never does, so
\* Session.commit() in the finally clause raises (PendingRollbackError) out of
\* the task; the transaction, and FAILED with it, is discarded.
HandleFlushError(r, q) ==
  /\ req' = [req EXCEPT ![r] = Cleared(q, "raised")]
  /\ UNCHANGED <<entries, metas, datas>>

\* process_data_entry_background up to the row loop of process_csv_data.
StartBackground(r) ==
  /\ req[r].pc = "scheduled"
  /\ IF uploads[req[r].entry].ext = "csv"
     THEN /\ req' = [req EXCEPT ![r] = [@ EXCEPT !.pc = "rows", !.i = 1]]
          /\ UNCHANGED entries
     ELSE /\ entries' = [entries EXCEPT ![req[r].entry] =
                           [status |-> "failed", error |-> "Unsupported file extension"]]
          /\ req' = [req EXCEPT ![r] = [@ EXCEPT !.pc = "failed"]]
  /\ UNCHANGED <<uploads, metas, datas, nextMetaId, calc>>

\* A lookup that is never consulted: every row creates a field.
AlwaysCreateFieldMeta(name, country, cell, table, order, freshId) ==
  [id |-> freshId, isNew |-> TRUE, match |-> NoMatch, score |-> 0]

\* A lookup whose match is reported and not used: a field is created beside
\* the one that matches.
CreateBesideMatch(name, country, cell, table, order, freshId) ==
  LET found == FindMatchingField(name, country, cell, table, order)
  IN  [id |-> freshId, isNew |-> TRUE, match |-> found.match, score |-> found.score]

\* get_or_create_field_meta: the matching field, or a new one under the next
\* id of the sequence.
GetOrCreateFieldMeta(name, country, cell, table, order, freshId) ==
  LET found == FindMatchingField(name, country, cell, table, order)
  IN  IF found.match # NoMatch
      THEN [id |-> found.match, isNew |-> FALSE, match |-> found.match, score |-> found.score]
      ELSE [id |-> freshId, isNew |-> TRUE, match |-> NoMatch, score |-> found.score]

\* The magnitude of one source unit in target units.
UnitFactor == 2

\* convert_value of a number with units: the magnitude in the target units.
ConvertValue(value) == value * UnitFactor

\* extract_field_attributes: the mapped attributes of a row.  A cell that is
\* NaN is left out; a geometry is taken as it is; an attribute whose
\* conversion raises (faults "unit" and "data") is stored with its raw value.
ExtractFieldAttributes(row) ==
  [name |-> row.name, country |-> row.country, cell |-> row.cell,
   geom |-> row.geom,
   value |-> IF row.value = NoValue THEN NoValue
             ELSE IF row.fault \in {"unit", "data"} THEN row.value
             ELSE ConvertValue(row.value)]

\* create_field_data
CreateFieldData(metaId, row, entry, r, k) ==
  LET attrs == ExtractFieldAttributes(row)
  IN  [meta |-> metaId, entry |-> entry, row |-> k, req |-> r,
       name |-> attrs.name, country |-> attrs.country, cell |-> attrs.cell,
       geom |-> attrs.geom, value |-> attrs.value,
       bad |-> row.fault = "data"]

\* A list that gets one entry per row.
TrackEveryRow(toMerge, id) == Append(toMerge, id)

\* field_metas_to_merge[field_meta.id] = field_attrs: a dictionary keeps one
\* entry per key, in the order of first insertion.
TrackForMerge(toMerge, id) ==
  IF id \in SeqToSet(toMerge) THEN toMerge ELSE Append(toMerge, id)

\* One iteration of the row loop of process_csv_data.
ProcessRow(r) ==
  /\ req[r].pc = "rows"
  /\ req[r].i <= Len(uploads[req[r].entry].rows)
  /\ LET q == req[r]
         row == uploads[q.entry].rows[q.i]
         table == VisibleMetas(q)
     IN  \E order \in Orders(PotentialMatches(row.country, table)) :
           LET got == GetOrCreateFieldMeta(row.name, row.country, row.cell,
                                           table, order, nextMetaId)
               call == [made |-> TRUE, name |-> row.name, country |-> row.country,
                        cell |-> row.cell, table |-> table, match |-> got.match,
                        score |-> got.score, id |-> got.id]
               added == IF got.isNew
                        THEN (got.id :> [name |-> row.name, country |-> row.country,
                                         cell |-> row.cell, geom |-> row.geom,
                                         fill |-> {}]) @@ q.newMetas
                        ELSE q.newMetas
               q1 == [q EXCEPT !.newMetas = added, !.call = call]
           IN  /\ nextMetaId' = IF got.isNew THEN nextMetaId + 1 ELSE nextMetaId
               /\ IF got.isNew /\ FlushRaises(q)
                  THEN \* db.flush() in get_or_create_field_meta raises
                       HandleFlushError(r, q1)
                  ELSE IF row.fault = "type"
                  THEN \* PyxisFieldData(**data_dict) raises TypeError
                       HandleException(r, q1)
                  ELSE /\ req' = [req EXCEPT ![r] =
                              [q1 EXCEPT !.newDatas = @ \cup
                                            {CreateFieldData(got.id, row, q.entry, r, q.i)},
                                         !.toMerge = TrackForMerge(@, got.id),
                                         !.i = @ + 1]]
                       /\ UNCHANGED <<entries, metas, datas>>
  /\ UNCHANGED <<uploads, calc>>

\* db.flush() after the row loop.
FlushRows(r) ==
  /\ req[r].pc = "rows"
  /\ req[r].i > Len(uploads[req[r].entry].rows)
  /\ IF FlushRaises(req[r])
     THEN HandleFlushError(r, req[r])
     ELSE /\ req' = [req EXCEPT ![r] = [@ EXCEPT !.pc = "merge"]]
          /\ UNCHANGED <<entries, metas, datas>>
  /\ UNCHANGED <<uploads, nextMetaId, calc>>

\* A write-back that stores whatever the merge has computed.
WriteAlways(merged, null, current, pending) == Some(merged)

\* The write-back of update_pyxis_field_meta_merge for one attribute: a
\* merged value is stored when it is not None and differs from the stored one.
WriteBack(merged, null, current, pending) ==
  IF merged # null /\ merged # current THEN Some(merged) ELSE pending

\* "value is not None and value != current_value" for the geometry: the
\* merged value is a new element made by from_shape, the stored one is the
\* text of the row or the element the column type loaded, and the two never
\* compare equal, whatever they cover.
GeometryDiffers(value) == value # NoGeom

\* No pending change of a row of pyxis_field_meta.
NoChange ==
  [name |-> Nothing, country |-> Nothing, cell |-> Nothing, geom |-> Nothing,
   fill |-> Nothing]

\* update_pyxis_field_meta_merge for the next field of field_metas_to_merge.
UpdatePyxisFieldMetaMerge(r) ==
  /\ req[r].pc = "merge"
  /\ req[r].toMerge # <<>>
  /\ LET q == req[r]
         id == Head(q.toMerge)
         table == VisibleMetas(q)
         records == {o \in VisibleDatas(q) : o.meta = id}
         pending == IF id \in DOMAIN q.upd THEN q.upd[id] ELSE NoChange
     IN  IF id \notin DOMAIN table \/ records = {}
         THEN req' = [req EXCEPT ![r] = [q EXCEPT !.toMerge = Tail(@),
                                                  !.merged = Append(@, id)]]
         ELSE \E name \in MergeSpecificAttribute(records, "name"),
                 country \in MergeSpecificAttribute(records, "country") :
                LET shape == MergeGeometry({o.geom : o \in records} \ {NoGeom})
                    written ==
                      [name    |-> WriteBack(name, NoName, table[id].name, pending.name),
                       country |-> WriteBack(country, NoCountry,
                                             table[id].country, pending.country),
                       cell    |-> WriteBack(shape.cell, NoCell,
                                             table[id].cell, pending.cell),
                       geom    |-> IF GeometryDiffers(shape.geom)
                                   THEN Some(shape.geom) ELSE pending.geom,
                       fill    |-> Nothing]
                    updatesMade ==
                      \/ name # NoName /\ name # table[id].name
                      \/ country # NoCountry /\ country # table[id].country
                      \/ shape.cell # NoCell /\ shape.cell # table[id].cell
                      \/ GeometryDiffers(shape.geom)
                    geomNow == Changed(table[id].geom, written.geom)
                    filled ==
                      IF updatesMade
                      THEN Some(UpdateFieldH3Indices(geomNow, table[id].fill))
                      ELSE pending.fill
                IN  req' = [req EXCEPT ![r] =
                      [q EXCEPT !.toMerge = Tail(@),
                                !.merged = Append(@, id),
                                !.upd = (id :> [written EXCEPT !.fill = filled]) @@ @]]
  /\ UNCHANGED <<entries, uploads, metas, datas, nextMetaId, calc>>

\* The flush of Session.commit() writes a geometry the column
\* geometry(POLYGON) of pyxis_field_meta does not take.
CommitRaises(q) ==
  \E id \in DOMAIN q.newMetas \cup DOMAIN q.upd :
    id \in DOMAIN VisibleMetas(q) /\ VisibleMetas(q)[id].geom.kind = "multipolygon"

\* db.commit() at the end of process_csv_data.  When its flush raises, the
\* commit rolls the transaction back and raises: the except clause of
\* process_data_entry_background sets FAILED and the message, which the
\* commit of the finally clause stores in a new transaction.
CommitRows(r) ==
  /\ req[r].pc = "merge"
  /\ req[r].toMerge = <<>>
  /\ IF CommitRaises(req[r])
     THEN /\ entries' = [entries EXCEPT ![req[r].entry] =
                           [status |-> "failed", error |-> "Processing error"]]
          /\ req' = [req EXCEPT ![r] = Cleared(@, "failed")]
          /\ UNCHANGED <<metas, datas>>
     ELSE /\ metas' = VisibleMetas(req[r])
          /\ datas' = VisibleDatas(req[r])
          /\ req' = [req EXCEPT ![r] = Cleared(@, "committed")]
          /\ UNCHANGED entries
  /\ UNCHANGED <<uploads, nextMetaId, calc>>

\* process_data_entry_background after process_csv_data has returned:
\* COMPLETED is set and committed.
MarkCompleted(r) ==
  /\ req[r].pc = "committed"
  /\ entries' = [entries EXCEPT ![req[r].entry].status = "completed"]
  /\ req' = [req EXCEPT ![r] = [@ EXCEPT !.pc = "done"]]
  /\ UNCHANGED <<uploads, metas, datas, nextMetaId, calc>>

\* A step of the background task of request r.
Background(r) ==
  \/ StartBackground(r)
  \/ ProcessRow(r)
  \/ FlushRows(r)
  \/ UpdatePyxisFieldMetaMerge(r)
  \/ CommitRows(r)
  \/ MarkCompleted(r)

Next ==
  \/ \E r \in Requests, b \in Entries : LoadEntry(r, b)
  \/ \E r \in Requests : TriggerDataProcessing(r)
  \/ \E r \in Requests : Background(r)

(***************************************************************************)
(* Uploaded files and initial states.                                      *)
(***************************************************************************)
AlphaField == <<1, 2>>

AlphaFieldCaps == <<11, 2>>

AlphaFields == <<1, 2, 3>>

Gamma == <<3>>

\* A row with a geometry and a value of a numeric attribute.
FullRow(name, country, cell, geom, value, fault) ==
  [name |-> name, country |-> country, cell |-> cell, geom |-> geom,
   value |-> value, fault |-> fault]

\* A row with neither.
Row(name, country, cell, fault) == FullRow(name, country, cell, NoGeom, NoValue, fault)

\* fault "type": the row has a value for a mapped attribute that is no column
\* of pyxis_field_data (PyxisFieldData(**data_dict) raises TypeError); fault
\* "data": the row has a value that was kept raw after a failed conversion
\* and that the database rejects at the next flush; fault "unit": the row has
\* a value that was kept raw after a failed conversion and that the database
\* takes.
RowPool ==
  { Row(AlphaField, NoCountry, 0, "none"),
    Row(AlphaFields, NoCountry, 0, "none"),
    Row(AlphaField, NoCountry, 0, "type"),
    Row(AlphaField, NoCountry, 0, "data") }

SeqsUpTo(S, n) == UNION {[1..k -> S] : k \in 0..n}

\* What validate_data_entry stores for an upload: the file extension and the rows.
Uploads(pool, n) ==
  {[ext |-> "csv", rows |-> rows] : rows \in SeqsUpTo(pool, n)}
    \cup {[ext |-> "other", rows |-> <<>>]}

PendingEntry == [status |-> "pending", error |-> "None"]

\* The registry after an earlier entry (id 0) with the one row Alpha Field was
\* ingested: one identity with one observation.
SeedMetas ==
  (1 :> [name |-> AlphaField, country |-> NoCountry, cell |-> 0, geom |-> NoGeom,
         fill |-> {}])

SeedDatas ==
  {[meta |-> 1, entry |-> 0, row |-> 1, req |-> 0, name |-> AlphaField,
    country |-> NoCountry, cell |-> 0, geom |-> NoGeom, value |-> NoValue,
    bad |-> FALSE]}

\* Two uploads, the second one of at most one row, into an empty registry or
\* into the registry an earlier entry has left.
Init ==
  /\ \E first \in Uploads(RowPool, MaxRows), second \in Uploads(RowPool, 1) :
       uploads = (1 :> first) @@ (2 :> second)
  /\ entries = [b \in Entries |-> PendingEntry]
  /\ \/ metas = <<>> /\ datas = {} /\ nextMetaId = 1
     \/ metas = SeedMetas /\ datas = SeedDatas /\ nextMetaId = 2
  /\ req = [r \in Requests |-> IF r \in {1, 2} THEN IdleRequest
                                 ELSE [IdleRequest EXCEPT !.pc = "absent"]]
  /\ calc = NoCalc

Spec == Init /\ [][Next]_vars

\* The same uploads and registries with one request made.
InitOneRequest ==
  /\ \E first \in Uploads(RowPool, MaxRows), second \in Uploads(RowPool, 1) :
       uploads = (1 :> first) @@ (2 :> second)
  /\ entries = [b \in Entries |-> PendingEntry]
  /\ \/ metas = <<>> /\ datas = {} /\ nextMetaId = 1
     \/ metas = SeedMetas /\ datas = SeedDatas /\ nextMetaId = 2
  /\ req = [r \in Requests |-> IF r = 1 THEN IdleRequest
                                 ELSE [IdleRequest EXCEPT !.pc = "absent"]]
  /\ calc = NoCalc

\* A scheduled background task is run to its end.
FairSpec ==
  InitOneRequest /\ [][Next]_vars /\ \A r \in Requests : WF_vars(Background(r))

\* the most rows the file of the end-to-end runs holds
MaxBatchRows == 3

E2EPool ==
  { Row(AlphaField, NoCountry, 0, "none"),
    Row(AlphaField, "NO", 0, "none"),
    Row(AlphaField, NoCountry, 2, "none"),
    Row(AlphaField, NoCountry, 60, "none"),
    Row(AlphaFieldCaps, NoCountry, NoCell, "none"),
    Row(Gamma, NoCountry, 60, "none"),
    Row(NoName, NoCountry, 0, "none") }

\* One upload of up to three rows, and an empty one, into an empty registry;
\* one request to process an entry is made.
InitE2E ==
  /\ \E rows \in SeqsUpTo(E2EPool, MaxBatchRows) :
       uploads = (1 :> [ext |-> "csv", rows |-> rows]) @@ (2 :> [ext |-> "csv", rows |-> <<>>])
  /\ entries = [b \in Entries |-> PendingEntry]
  /\ metas = <<>> /\ datas = {} /\ nextMetaId = 1
  /\ req = [r \in Requests |-> IF r = 1 THEN IdleRequest
                                 ELSE [IdleRequest EXCEPT !.pc = "absent"]]
  /\ calc = NoCalc

SpecE2E == InitE2E /\ [][Next]_vars

\* the most rows the file of the runs with geometries holds
MaxGeoRows == 3

\* Rows with a polygon and a value of a numeric attribute that has units.
GeoPool ==
  { FullRow(AlphaField, NoCountry, 0, Polygon({0, 1}), 10, "none"),
    FullRow(Gamma, NoCountry, 60, Polygon({60}), 20, "none"),
    FullRow(AlphaField, NoCountry, 2, Polygon({1, 2}), 30, "none"),
    FullRow(AlphaField, NoCountry, 2, Polygon({3}), NoValue, "none"),
    FullRow(AlphaField, NoCountry, 0, Polygon({}), NoValue, "none"),
    FullRow(AlphaFields, NoCountry, 0, NoGeom, 10, "unit"),
    FullRow(AlphaField, NoCountry, 0, NoGeom, NoValue, "type"),
    FullRow(AlphaField, NoCountry, 0, NoGeom, 10, "data") }

\* The registry after an earlier entry (id 0) with the one row Alpha Field and
\* the polygon of cell 0 was ingested and merged.
GeoSeedMetas ==
  (1 :> [name |-> AlphaField, country |-> NoCountry, cell |-> 0,
         geom |-> Polygon({0}), fill |-> {0}])

GeoSeedDatas ==
  {[meta |-> 1, entry |-> 0, row |-> 1, req |-> 0, name |-> AlphaField,
    country |-> NoCountry, cell |-> 0, geom |-> Polygon({0}), value |-> NoValue,
    bad |-> FALSE]}

\* One upload of up to three rows into an empty registry or into a registry
\* with one identity, with or without a geometry; one request is made.
InitGeo ==
  /\ \E rows \in SeqsUpTo(GeoPool, MaxGeoRows) :
       uploads = (1 :> [ext |-> "csv", rows |-> rows]) @@ (2 :> [ext |-> "other", rows |-> <<>>])
  /\ entries = [b \in Entries |-> PendingEntry]
  /\ \/ metas = <<>> /\ datas = {} /\ nextMetaId = 1
     \/ metas = SeedMetas /\ datas = SeedDatas /\ nextMetaId = 2
     \/ metas = GeoSeedMetas /\ datas = GeoSeedDatas /\ nextMetaId = 2
  /\ req = [r \in Requests |-> IF r = 1 THEN IdleRequest
                                 ELSE [IdleRequest EXCEPT !.pc = "absent"]]
  /\ calc = NoCalc

SpecGeo == InitGeo /\ [][Next]_vars

\* the most calls of update_pyxis_field_meta_merge a session makes
MaxMergeCalls == 3

\* update_pyxis_field_meta_merge is called once more, in a new transaction
\* of the session, for a field the completed batch has merged; no observation
\* has been added since.
MergeAgain(r) ==
  /\ req[r].pc = "done"
  /\ Len(req[r].merged) < MaxMergeCalls
  /\ \E id \in SeqToSet(req[r].merged) :
       req' = [req EXCEPT ![r] = [@ EXCEPT !.pc = "merge", !.toMerge = <<id>>]]
  /\ UNCHANGED <<entries, uploads, metas, datas, nextMetaId, calc>>

NextRemerge ==
  \/ Next
  \/ \E r \in Requests : MergeAgain(r)

SpecRemerge == InitGeo /\ [][NextRemerge]_vars

\* Rows of the field of the seeded identity, whose polygon is cell 0: a
\* polygon beside it, a polygon one cell away from it, and a row that cannot
\* be stored.
RetryPool ==
  { FullRow(AlphaField, NoCountry, 0, Polygon({1}), NoValue, "none"),
    FullRow(AlphaField, NoCountry, 0, Polygon({2}), NoValue, "none"),
    FullRow(AlphaField, NoCountry, 0, NoGeom, NoValue, "type") }

\* Two uploads of at most one row into the registry with the seeded identity
\* that has a geometry; three requests are made.
InitRetry ==
  /\ \E first \in Uploads(RetryPool, 1), second \in Uploads(RetryPool, 1) :
       uploads = (1 :> first) @@ (2 :> second)
  /\ entries = [b \in Entries |-> PendingEntry]
  /\ metas = GeoSeedMetas /\ datas = GeoSeedDatas /\ nextMetaId = 2
  /\ req = [r \in Requests |-> IdleRequest]
  /\ calc = NoCalc

SpecRetry == InitRetry /\ [][Next]_vars

(***************************************************************************)
(* Direct calls of functions of the service, with arguments from small     *)
(* sets.  No request is made while a function is called directly.          *)
(***************************************************************************)

\* No upload is processed: the registry is empty and no request is made.
Quiet ==
  /\ uploads = [b \in Entries |-> [ext |-> "other", rows |-> <<>>]]
  /\ entries = [b \in Entries |-> PendingEntry]
  /\ metas = <<>> /\ datas = {} /\ nextMetaId = 1
  /\ req = [r \in Requests |-> [IdleRequest EXCEPT !.pc = "absent"]]

StaysQuiet == UNCHANGED <<entries, uploads, metas, datas, nextMetaId, req>>

ScoreNames == {NoName, AlphaField, AlphaFieldCaps, AlphaFields, Gamma}

ScoreCells == {NoCell, 0, 2, 49, 50, 60} \cup Remote

\* calculate_match_score(name1, name2, index1, index2) or
\* find_matching_field(name1, None, index1, db) with the one field
\* (name2, index2) in the table is about to be called.
InitScore ==
  /\ Quiet
  /\ \E fn \in {"calculate_match_score", "find_matching_field"},
        name1 \in ScoreNames, name2 \in ScoreNames,
        index1 \in ScoreCells, index2 \in ScoreCells :
       calc = [fn |-> fn, pc |-> "call", name1 |-> name1, name2 |-> name2,
               index1 |-> index1, index2 |-> index2,
               geo |-> 0, score |-> 0, match |-> NoMatch]

\* calculate_match_score returns: the geo score (in units of 1/1000) and the
\* combined score (in units of 1/10000).
ApplyCalculateMatchScore ==
  /\ calc.fn = "calculate_match_score" /\ calc.pc = "call"
  /\ calc' = [calc EXCEPT
                !.pc = "return",
                !.geo = GeoScoreMilli(calc.index1, calc.index2),
                !.score = CalculateMatchScore(calc.name1, calc.name2,
                                              calc.index1, calc.index2)]
  /\ StaysQuiet

\* find_matching_field returns: the field or None, and the score.
ApplyFindMatchingField ==
  /\ calc.fn = "find_matching_field" /\ calc.pc = "call"
  /\ LET table == (1 :> [name |-> calc.name2, country |-> NoCountry,
                         cell |-> calc.index2, geom |-> NoGeom, fill |-> {}])
         found == FindMatchingField(calc.name1, NoCountry, calc.index1, table, <<1>>)
     IN  calc' = [calc EXCEPT !.pc = "return", !.match = found.match,
                              !.score = found.score]
  /\ StaysQuiet

NextScore ==
  \/ ApplyCalculateMatchScore
  \/ ApplyFindMatchingField

SpecScore == InitScore /\ [][NextScore]_vars

(***************************************************************************)
(* process_attribute, called on a list of observations and a rule.  A      *)
(* number is the fraction num / den (the code computes in floating point); *)
(* den = 0 is Python None.                                                 *)
(***************************************************************************)

NoResult == [num |-> 0, den |-> 0]

Whole(v) == [num |-> v, den |-> 1]

RECURSIVE SeqSum(_)
SeqSum(s) == IF s = <<>> THEN 0 ELSE Head(s) + SeqSum(Tail(s))

\* int(x) of the fraction num / den: towards zero.
Truncate(num, den) == IF num >= 0 THEN num \div den ELSE -((-num) \div den)

\* extract_values_for_attribute on a list of records: the non-null values of
\* the attribute in the order of the records.
ExtractValuesInOrder(records, attr) ==
  SelectSeq([k \in 1..Len(records) |-> records[k][attr]], LAMBDA v : v # NoValue)

\* merge_average: np.average of the values.
MergeAverage(values) ==
  IF values = <<>> THEN NoResult
  ELSE [num |-> SeqSum(values), den |-> Len(values)]

\* merge_volume_weighted_average: zip(values, weights), sum(value * weight)
\* / sum(weight) over the pairs without None.
MergeVolumeWeightedAverage(values, weights) ==
  IF values = <<>> \/ weights = <<>> \/ Len(values) # Len(weights) THEN NoResult
  ELSE LET valid == SelectSeq([k \in 1..Len(values) |-> <<values[k], weights[k]>>],
                              LAMBDA p : p[1] # NoValue /\ p[2] # NoValue)
           weighted_sum == SeqSum([k \in 1..Len(valid) |-> valid[k][1] * valid[k][2]])
           total_weight == SeqSum([k \in 1..Len(valid) |-> valid[k][2]])
       IN  IF valid = <<>> THEN NoResult
           ELSE IF total_weight = 0 THEN NoResult
           ELSE [num |-> weighted_sum, den |-> total_weight]

\* datetime.now().year
CurrentYear == 2026

\* merge_avg_age: int(current_year - np.average(values)).
MergeAvgAge(values) ==
  IF values = <<>> THEN NoResult
  ELSE Whole(Truncate(CurrentYear * Len(values) - SeqSum(values), Len(values)))

\* The methods MERGE_FUNCTIONS has a function for.
MERGE_FUNCTIONS == {"average", "most_frequent"}

\* apply_rounding
ApplyRounding(value, round_type) ==
  IF round_type \in {"int", "integer"} THEN Whole(Truncate(value.num, value.den))
  ELSE value

\* process_attribute: the possible results (merge_most_frequent may return
\* any value of maximal count).
ProcessAttribute(field_data_records, attr_name, rule) ==
  LET values == ExtractValuesInOrder(field_data_records, attr_name)
      weights == ExtractValuesInOrder(field_data_records, "oil_prod")
      counts == [v \in {values[k] : k \in 1..Len(values)} |->
                   Cardinality({k \in 1..Len(values) : values[k] = v})]
      results ==
        IF rule.function = "volume_weighted"
        THEN IF weights = <<>> \/ Len(weights) # Len(values)
             THEN {MergeAverage(values)}
             ELSE {MergeVolumeWeightedAverage(values, weights)}
        ELSE IF rule.function = "avg_age" THEN {MergeAvgAge(values)}
        ELSE IF rule.method \in MERGE_FUNCTIONS
             THEN IF rule.method = "average" THEN {MergeAverage(values)}
                  ELSE {Whole(v) : v \in MergeMostFrequent(counts)}
             ELSE {Whole(values[1])}
  IN  IF values = <<>> THEN {NoResult}
      ELSE {IF result # NoResult /\ rule.round # "none"
            THEN ApplyRounding(result, rule.round) ELSE result : result \in results}

MaxRecords == 3

\* The observations: an attribute value and the oil production, each of
\* which may be missing.
RuleRecords ==
  {[value |-> v, oil_prod |-> w] : v \in {NoValue, 10, 20}, w \in {NoValue, 0, 1, 3}}

RuleMethods ==
  {"average", "median", "most_frequent", "sum", "min", "max", "first", "last"}

\* The rules: a method, or a special function, with or without rounding.
Rules ==
  {[method |-> m, function |-> "none", round |-> r] :
      m \in RuleMethods, r \in {"none", "int"}}
    \cup {[method |-> "average", function |-> f, round |-> r] :
            f \in {"volume_weighted", "avg_age"}, r \in {"none", "int"}}

\* process_attribute(records, "value", rule) is about to be called.
InitRules ==
  /\ Quiet
  /\ \E records \in SeqsUpTo(RuleRecords, MaxRecords), rule \in Rules :
       calc = [fn |-> "process_attribute", pc |-> "call", records |-> records,
               rule |-> rule, result |-> NoResult]

ApplyProcessAttribute ==
  /\ calc.fn = "process_attribute" /\ calc.pc = "call"
  /\ \E result \in ProcessAttribute(calc.records, "value", calc.rule) :
       calc' = [calc EXCEPT !.pc = "return", !.result = result]
  /\ StaysQuiet

NextRules == ApplyProcessAttribute

SpecRules == InitRules /\ [][NextRules]_vars

(***************************************************************************)
(* update_field_h3_indices, called on a field with a geometry of any type. *)
(***************************************************************************)

FillCells == {1, 2, 3}

\* The geometries a field object can carry: none, a polygon (possibly
\* empty), a multipolygon of parts that do not touch, a point, a line.
FillGeoms ==
  {NoGeom}
    \cup {Polygon(c) : c \in {c \in SUBSET FillCells : c = {} \/ Connected(c)}}
    \cup {[kind |-> "multipolygon", cover |-> c] :
            c \in {c \in SUBSET FillCells : c # {} /\ ~Connected(c)}}
    \cup {[kind |-> "point", cover |-> {c}] : c \in FillCells}
    \cup {[kind |-> "linestring", cover |-> c] :
            c \in {c \in SUBSET FillCells : Connected(c)}}

\* How update_field_h3_indices ends and the level of the last line it logs:
\* every path returns; an unsupported geometry type and an exception are
\* logged as errors.
UpdateFieldH3IndicesEnds(geom) ==
  IF geom = NoGeom THEN [exit |-> "return", log |-> "info"]
  ELSE IF geom.kind \notin {"polygon", "multipolygon"}
       THEN [exit |-> "return", log |-> "error"]
       ELSE [exit |-> "return", log |-> "info"]

\* update_field_h3_indices(db, field_meta) is about to be called on a field
\* with some geometry and some stored cells.
InitFill ==
  /\ Quiet
  /\ \E geom \in FillGeoms, fill \in SUBSET FillCells :
       calc = [fn |-> "update_field_h3_indices", pc |-> "call", geom |-> geom,
               fill |-> fill, exit |-> "none", log |-> "none"]

ApplyUpdateFieldH3Indices ==
  /\ calc.fn = "update_field_h3_indices" /\ calc.pc = "call"
  /\ LET ends == UpdateFieldH3IndicesEnds(calc.geom)
     IN  calc' = [calc EXCEPT !.pc = "return",
                              !.fill = UpdateFieldH3Indices(calc.geom, calc.fill),
                              !.exit = ends.exit, !.log = ends.log]
  /\ StaysQuiet

NextFill == ApplyUpdateFieldH3Indices

SpecFill == InitFill /\ [][NextFill]_vars

(***************************************************************************)
(* Properties.                                                             *)
(***************************************************************************)

\* The number of times x occurs in the sequence s.
SeqCount(s, x) == Cardinality({k \in 1..Len(s) : s[k] = x})

\* The observations the task of request r has created (stored or pending).
ObservationsOf(r) == {o \in datas \cup req[r].newDatas : o.req = r}

\* The identities those observations are attached to.
TouchedBy(r) == {o.meta : o \in ObservationsOf(r)}

\* The merge loop of request r has run to its end.
MergeLoopOver(r) ==
  \/ req[r].pc \in {"committed", "done"}
  \/ req[r].pc = "merge" /\ req[r].toMerge = <<>>

\* C1: in one run of process_csv_data no merge runs while rows are still being
\* consumed, the merge runs at most once per identity and only for identities
\* that received an observation of this run, and once the merge loop is over it
\* has run exactly once for every identity the run touched, however many rows
\* resolved to it.
MergeOncePerTouchedIdentity ==
  \A r \in Requests :
    /\ req[r].pc = "rows" => req[r].merged = <<>>
    /\ \A id \in SeqToSet(req[r].merged) :
         SeqCount(req[r].merged, id) = 1 /\ id \in TouchedBy(r)
    /\ MergeLoopOver(r) => \A id \in TouchedBy(r) : SeqCount(req[r].merged, id) = 1

\* A completed run in which two rows resolved to one identity, merged once.
TwoRowsOneMerge ==
  \E r \in Requests :
    /\ req[r].pc = "done"
    /\ \E o1, o2 \in ObservationsOf(r) : o1.row # o2.row /\ o1.meta = o2.meta
    /\ \A id \in TouchedBy(r) : SeqCount(req[r].merged, id) = 1

\* The status changes the state machine of a batch allows.
AllowedTransitions ==
  { <<"pending", "processing">>, <<"processing", "completed">>,
    <<"processing", "failed">>, <<"failed", "pending">> }

\* C2: the stored status of a batch changes only along pending -> processing,
\* processing -> completed, processing -> failed and failed -> pending.
StatusFollowsStateMachine ==
  [][\A b \in Entries :
       entries'[b].status # entries[b].status
         => <<entries[b].status, entries'[b].status>> \in AllowedTransitions]_vars

\* C3: trigger_data_processing on an entry whose status (as the request has
\* loaded it) is processing or completed reports failure, leaves the stored
\* entries unchanged and schedules no task: the rejected request takes no
\* further step.
RejectsReentry ==
  [][\A r \in Requests :
       /\ (req[r].pc = "loaded" /\ req[r].seen \in {"processing", "completed"}
             /\ req'[r] # req[r])
            => (req'[r].pc = "rejected" /\ ~req'[r].success /\ entries' = entries)
       /\ req[r].pc = "rejected" => req'[r] = req[r]]_vars

\* A trigger on a processing or completed entry has been rejected.
ReentryRejected ==
  \E r \in Requests :
    /\ req[r].pc = "rejected"
    /\ req[r].seen \in {"processing", "completed"}
    /\ ~req[r].success

\* C4: every batch whose stored status is processing eventually has the stored
\* status completed or failed, given that scheduled background tasks are run.
ProcessingEnds ==
  \A b \in Entries :
    (entries[b].status = "processing") ~> (entries[b].status \in {"completed", "failed"})

\* C5: a background task that ends on an error ends with the stored status
\* failed and a stored error message, and no exception leaves the task.
ErrorsEndFailed ==
  [][\A r \in Requests :
       (req[r].pc \in {"scheduled", "rows", "merge", "committed"}
          /\ req'[r].pc \in {"failed", "raised"})
         => /\ req'[r].pc = "failed"
            /\ entries'[req[r].entry].status = "failed"
            /\ entries'[req[r].entry].error # "None"]_vars

\* C6: after two batches that touched the same identity have both completed,
\* the name and the country of the identity are a merge result over all the
\* stored observations of the identity, those of both batches included.
NoLostUpdate ==
  (req[1].pc = "done" /\ req[2].pc = "done" /\ req[1].entry # req[2].entry)
    => \A id \in TouchedBy(1) \cap TouchedBy(2) :
         /\ id \in DOMAIN metas
         /\ metas[id].name \in
              MergeSpecificAttribute({o \in datas : o.meta = id}, "name")
         /\ metas[id].country \in
              MergeSpecificAttribute({o \in datas : o.meta = id}, "country")

\* C7: the lookup for an observation without a name (None or empty) reports no
\* match, whatever identities are visible, and the observation gets an
\* identity that did not exist before the lookup.
NamelessNeverMatched ==
  \A r \in Requests :
    (req[r].call.made /\ req[r].call.name \in {NoName, <<>>})
      => /\ req[r].call.match = NoMatch
         /\ req[r].call.id \notin DOMAIN req[r].call.table
         /\ req[r].call.id \in DOMAIN (req[r].newMetas @@ metas)

\* A nameless observation was looked up while an identity with its centroid
\* cell existed.
NamelessBesideSameCell ==
  \E r \in Requests :
    /\ req[r].call.made
    /\ req[r].call.name = NoName
    /\ req[r].call.match = NoMatch
    /\ \E id \in DOMAIN req[r].call.table :
         req[r].call.table[id].cell = req[r].call.cell

\* C8: for a named observation find_matching_field returns an identity only if
\* it belongs to the country-filtered pool, its score is the maximum over the
\* pool and that score is at least 60; when every score of the pool is below
\* 60, or the pool is empty, it reports no match.
BestAboveThreshold ==
  \A r \in Requests :
    LET c == req[r].call
        pool == {id \in DOMAIN c.table :
                   c.country = NoCountry \/ c.table[id].country = c.country}
        Score(id) == CalculateMatchScore(c.name, c.table[id].name,
                                         c.cell, c.table[id].cell)
    IN  (c.made /\ c.name # NoName)
          => /\ c.match # NoMatch
                  => /\ c.match \in pool
                     /\ c.score = Score(c.match)
                     /\ Score(c.match) >= 60 * ScoreUnit
                     /\ \A id \in pool : Score(id) <= Score(c.match)
             /\ (\A id \in pool : Score(id) < 60 * ScoreUnit) => c.match = NoMatch

\* A lookup returned the better of two candidates that both reach 60.
BestOfTwoAccepted ==
  \E r \in Requests :
    LET c == req[r].call
    IN  /\ c.made
        /\ c.match # NoMatch
        /\ \E id \in DOMAIN c.table :
             LET other == CalculateMatchScore(c.name, c.table[id].name,
                                              c.cell, c.table[id].cell)
             IN  id # c.match /\ other >= 60 * ScoreUnit /\ other < c.score

EndToEndBatch ==
  LET rows == uploads[1].rows
  IN  /\ Len(rows) = 3
      /\ rows[1].name = AlphaField /\ rows[3].name = AlphaField
      /\ rows[1].cell # NoCell /\ rows[2].cell # NoCell /\ rows[3].cell # NoCell
      /\ H3Distance(rows[1].cell, rows[3].cell) <= 2
      /\ rows[2].name = Gamma
      /\ H3Distance(rows[1].cell, rows[2].cell) > 50

\* The outcome of the end-to-end example: two identities, row 3 on the
\* identity of row 1, row 2 on the other one.
TwoIdentities ==
  /\ Cardinality(DOMAIN metas) = 2
  /\ \A o1, o2, o3 \in datas :
       (o1.entry = 1 /\ o2.entry = 1 /\ o3.entry = 1
          /\ o1.row = 1 /\ o2.row = 2 /\ o3.row = 3)
         => (o3.meta = o1.meta /\ o2.meta # o1.meta)
  /\ \A k \in 1..3 : \E o \in datas : o.entry = 1 /\ o.row = k

\* C10 as stated: ingesting the end-to-end batch into an empty registry
\* creates exactly 2 identities, row 3 attached to the identity of row 1.
EndToEndTwoIdentities ==
  (req[1].pc = "done" /\ req[1].entry = 1 /\ EndToEndBatch) => TwoIdentities

\* C10: ingesting the end-to-end batch into an empty registry creates exactly
\* 2 identities, row 3 attached to the identity of row 1, when row 3 has no
\* country or the country of row 1.
EndToEndTwoIdentitiesInPool ==
  (/\ req[1].pc = "done" /\ req[1].entry = 1 /\ EndToEndBatch
   /\ (uploads[1].rows[3].country = NoCountry
         \/ uploads[1].rows[3].country = uploads[1].rows[1].country))
    => TwoIdentities

\* The end-to-end batch, rows 1 and 3 at different cells, has been ingested
\* into two identities.
EndToEndIngested ==
  /\ req[1].pc = "done" /\ req[1].entry = 1 /\ EndToEndBatch
  /\ uploads[1].rows[1].cell # uploads[1].rows[3].cell
  /\ TwoIdentities

\* The file of entry 1 is the end-to-end batch with a value of the numeric
\* attribute in each row.
EndToEndValues ==
  /\ EndToEndBatch
  /\ \A k \in 1..3 : uploads[1].rows[k].value # NoValue /\ uploads[1].rows[k].fault = "none"

\* The stored observation of row k of entry 1.
ObservationOfRow(k) == CHOOSE o \in datas : o.entry = 1 /\ o.row = k

\* C11: after the end-to-end batch has completed, the identity of rows 1 and
\* 3 carries the numeric attribute, and its value is the mean of the values of
\* the observations of rows 1 and 3.
AverageOfMatchedRows ==
  (req[1].pc = "done" /\ req[1].entry = 1 /\ EndToEndValues /\ TwoIdentities)
    => LET field == metas[ObservationOfRow(1).meta]
       IN  /\ "value" \in DOMAIN field
           /\ 2 * field.value = ObservationOfRow(1).value + ObservationOfRow(3).value

\* The next step of request r merges a field again that it has merged before.
MergesAgain(r) ==
  /\ req[r].pc = "merge" /\ req[r].toMerge # <<>>
  /\ Head(req[r].toMerge) \in SeqToSet(req[r].merged)
  /\ req'[r].merged = Append(req[r].merged, Head(req[r].toMerge))

\* C12: a merge that is run again on an identity without a new observation
\* writes nothing back: no attribute of the identity gets a pending change,
\* so that updated_at is not set and the identity reads as before.
RemergeWritesNothing ==
  [][\A r \in Requests :
       MergesAgain(r) =>
         /\ req'[r].upd[Head(req[r].toMerge)] = NoChange
         /\ VisibleMetas(req'[r]) = VisibleMetas(req[r])]_vars

\* C13: the centroid cell of every stored identity that has a geometry is
\* the cell of the centroid of that geometry.
CentroidCellOfStoredGeometry ==
  \A id \in DOMAIN metas :
    (metas[id].geom # NoGeom /\ metas[id].geom.cover # {})
      => metas[id].cell = CentroidCell(metas[id].geom)

\* The step commits the batch of request r.
Commits(r) ==
  req[r].pc = "merge" /\ req[r].toMerge = <<>> /\ req'[r].pc = "committed"

\* The fields the merge of the batch of request r has given another geometry.
GeometryChangedBy(r) ==
  {id \in SeqToSet(req[r].merged) \cap DOMAIN metas' :
     /\ metas'[id].geom # NoGeom
     /\ id \in DOMAIN metas => metas'[id].geom # metas[id].geom}

Merges(r) ==
  /\ req[r].pc = "merge" /\ req[r].toMerge # <<>>
  /\ req'[r].merged = Append(req[r].merged, Head(req[r].toMerge))
  /\ Head(req[r].toMerge) \in DOMAIN VisibleMetas(req[r])
  /\ \E o \in VisibleDatas(req[r]) : o.meta = Head(req[r].toMerge)

\* The observations of the field request r merges next.
RecordsToMerge(r) == {o \in VisibleDatas(req[r]) : o.meta = Head(req[r].toMerge)}

\* The field request r merges next, before and after the step.
FieldBefore(r) == VisibleMetas(req[r])[Head(req[r].toMerge)]

FieldAfter(r) == VisibleMetas(req'[r])[Head(req[r].toMerge)]

\* One attribute is merged by the step: it is a most frequent value of the
\* observations, or there is none and it is as before.
Merged(r, attr) ==
  LET values == MergeSpecificAttribute(RecordsToMerge(r), attr)
  IN  IF values = {NullOf(attr)}
      THEN FieldAfter(r)[attr] = FieldBefore(r)[attr]
      ELSE FieldAfter(r)[attr] \in values

\* C15: a merge over observations that have no geometry to dissolve, or
\* only geometries whose union has no centroid, leaves geometry and centroid
\* cell of the identity as they are, merges name and country, and goes on
\* with the rest of the list.
NothingToDissolveKeepsGeometry ==
  [][\A r \in Requests :
       (Merges(r) /\ \A o \in RecordsToMerge(r) : o.geom.cover = {}) =>
         /\ FieldAfter(r).geom = FieldBefore(r).geom
         /\ FieldAfter(r).cell = FieldBefore(r).cell
         /\ Merged(r, "name") /\ Merged(r, "country")
         /\ req'[r].pc = "merge" /\ req'[r].toMerge = Tail(req[r].toMerge)]_vars

\* The seeded identity without a geometry got two more observations without
\* one: the batch is completed, the name is merged, cell and geometry are as
\* they were.
MergedWithoutGeometry ==
  /\ req[1].pc = "done"
  /\ SeedDatas \subseteq datas
  /\ Cardinality({o \in datas : o.meta = 1}) = 3
  /\ metas[1].name = AlphaFields
  /\ metas[1].cell = SeedMetas[1].cell /\ metas[1].geom = NoGeom

\* C16: a merge leaves an attribute of the identity as it is when no
\* observation carries a value for it, and never replaces a stored value by
\* the null value.
MergeKeepsStoredValues ==
  [][\A r \in Requests :
       Merges(r) =>
         /\ \A attr \in {"name", "country"} :
              MergeSpecificAttribute(RecordsToMerge(r), attr) = {NullOf(attr)}
                => FieldAfter(r)[attr] = FieldBefore(r)[attr]
         /\ (\A o \in RecordsToMerge(r) : o.geom = NoGeom)
              => /\ FieldAfter(r).geom = FieldBefore(r).geom
                 /\ FieldAfter(r).cell = FieldBefore(r).cell
         /\ FieldBefore(r).name # NoName => FieldAfter(r).name # NoName
         /\ FieldBefore(r).country # NoCountry => FieldAfter(r).country # NoCountry
         /\ FieldBefore(r).cell # NoCell => FieldAfter(r).cell # NoCell
         /\ FieldBefore(r).geom # NoGeom => FieldAfter(r).geom # NoGeom]_vars

\* A batch of one row with a centroid cell and no geometry has made an
\* identity, and the merge has left its cell in place.
CellKeptWithoutGeometry ==
  /\ req[1].pc = "done"
  /\ Cardinality(datas) = 1
  /\ \A o \in datas : o.entry = 1 /\ o.geom = NoGeom /\ o.country = NoCountry
  /\ \A id \in DOMAIN metas : metas[id].cell # NoCell /\ metas[id].geom = NoGeom

\* C17: a stored observation of a row one of whose values could not be
\* converted does not carry that attribute.
FailedConversionIsSkipped ==
  \A o \in datas :
    (o.entry = 1 /\ uploads[1].rows[o.row].fault \in {"unit", "data"})
      => o.value = NoValue

\* C18: when the run of a request has ended with FAILED stored, no
\* observation that run has created is in the table, and the step that
\* stores FAILED stores no identity and no observation with it.
FailedBatchLeavesNothing ==
  [][\A r \in Requests :
       (req[r].pc # "failed" /\ req'[r].pc = "failed")
         => /\ metas' = metas
            /\ \A o \in datas' : o.req # r]_vars

\* The step is an iteration of the row loop of request r.
ProcessesRow(r) ==
  req[r].pc = "rows" /\ req[r].i <= Len(uploads[req[r].entry].rows) /\ req'[r] # req[r]

\* The matcher reports no acceptable match for the row request r processes,
\* for some order in which the query returns the candidates.
MatcherReportsNone(r) ==
  LET row == uploads[req[r].entry].rows[req[r].i]
      table == VisibleMetas(req[r])
  IN  \E order \in Orders(PotentialMatches(row.country, table)) :
        FindMatchingField(row.name, row.country, row.cell, table, order).match = NoMatch

\* C19: no identity is ever removed from the table; a stored identity is
\* changed only by the commit of a batch that has merged it; an iteration of
\* the row loop creates an identity only when the matcher reports no match,
\* and leaves every identity it can see as it is.
IdentitiesChangeOnlyByMerge ==
  [][/\ DOMAIN metas \subseteq DOMAIN metas'
     /\ \A id \in DOMAIN metas :
          metas'[id] # metas[id]
            => \E r \in Requests : Commits(r) /\ id \in SeqToSet(req[r].merged)
     /\ \A r \in Requests :
          ProcessesRow(r) =>
            /\ nextMetaId' # nextMetaId => MatcherReportsNone(r)
            /\ \A id \in DOMAIN VisibleMetas(req[r]) \cap DOMAIN VisibleMetas(req'[r]) :
                 VisibleMetas(req'[r])[id] = VisibleMetas(req[r])[id]]_vars

\* A row has matched a stored identity: its observation is attached to it
\* and the identity is as the lookup saw it.
RowAttachedToMatch ==
  \E r \in Requests :
    /\ req[r].pc = "rows" /\ req[r].call.made
    /\ req[r].call.match \in DOMAIN metas
    /\ \E o \in req[r].newDatas : o.meta = req[r].call.match /\ o.row = req[r].i - 1
    /\ VisibleMetas(req[r])[req[r].call.match] = req[r].call.table[req[r].call.match]

\* C20: the identity find_matching_field returns for a row is the same
\* for every order in which the query returns the candidates.
MatchIndependentOfScanOrder ==
  \A r \in Requests :
    LET c == req[r].call
    IN  c.made =>
          \A order \in Orders(PotentialMatches(c.country, c.table)) :
            FindMatchingField(c.name, c.country, c.cell, c.table, order).match = c.match

\* C26: when a batch has failed and was triggered again, the table holds at
\* most one observation for each of its rows.
RetryIngestsNoRowTwice ==
  \A r1, r2 \in Requests :
    (/\ req[r1].pc = "failed" /\ req[r2].entry = req[r1].entry
     /\ req[r2].seen = "failed" /\ req[r2].success)
      => \A o1, o2 \in datas :
           (o1.entry = req[r1].entry /\ o2.entry = o1.entry /\ o1.row = o2.row)
             => o1 = o2

\* The background task of request r is scheduled or running.
TaskActive(r) == req[r].pc \in {"scheduled", "rows", "merge", "committed"}

\* C27: no two background tasks are scheduled or running for the same
\* batch at the same time.
OneTaskPerBatch ==
  \A r1, r2 \in Requests :
    (r1 # r2 /\ TaskActive(r1) /\ TaskActive(r2)) => req[r1].entry # req[r2].entry

\* The observations of row 1 of the two entries are stored and they agree in
\* name, country and centroid cell.
SameFieldInBothBatches ==
  /\ req[1].pc = "done" /\ req[2].pc = "done" /\ req[1].entry # req[2].entry
  /\ Len(uploads[1].rows) = 1 /\ Len(uploads[2].rows) = 1
  /\ uploads[1].rows[1].name = uploads[2].rows[1].name
  /\ uploads[1].rows[1].country = uploads[2].rows[1].country
  /\ uploads[1].rows[1].cell = uploads[2].rows[1].cell
  /\ uploads[1].rows[1].name # NoName

\* C28: two batches that each hold one row of the same field and found no
\* identity for it leave exactly one identity, with both observations.
OneIdentityAcrossBatches ==
  (SameFieldInBothBatches /\ SeedDatas \cap datas = {})
    => Cardinality(DOMAIN metas) = 1

\* C24: whenever a field is about to be merged, the most frequent name and
\* the most frequent country of its observations are each one value: a value
\* of maximal count, the same for every order of the observations.
MostFrequentIsOneValue ==
  \A r \in Requests :
    (req[r].pc = "merge" /\ req[r].toMerge # <<>>)
      => \A attr \in {"name", "country"} :
           LET values == ExtractValuesForAttribute(RecordsToMerge(r), attr)
           IN  /\ \A v \in MergeMostFrequent(values) :
                    \A w \in DOMAIN values : values[w] <= values[v]
               /\ Cardinality(MergeMostFrequent(values)) <= 1

ScoreReturned == calc.fn = "calculate_match_score" /\ calc.pc = "return"

\* Both cells are given and their grid distance is 50 or more or cannot be
\* computed.
FarApart(index1, index2) ==
  /\ index1 # NoCell /\ index2 # NoCell
  /\ H3DistanceRaises(index1, index2) \/ H3Distance(index1, index2) >= FarDistance

\* C21: the geo score is 100 at grid distance 0, -40 at a distance of 50 or
\* more, at a distance that cannot be computed and when exactly one of the
\* two cells is absent, and 0 only when both cells are absent.
GeoScoreAsStated ==
  ScoreReturned =>
    /\ (calc.index1 # NoCell /\ calc.index1 = calc.index2) => calc.geo = 100 * 1000
    /\ FarApart(calc.index1, calc.index2) => calc.geo = GeoPenalty * 1000
    /\ ((calc.index1 = NoCell) # (calc.index2 = NoCell)) => calc.geo = GeoPenalty * 1000
    /\ calc.geo = 0 => (calc.index1 = NoCell /\ calc.index2 = NoCell)

\* find_matching_field has returned.
FindReturned == calc.fn = "find_matching_field" /\ calc.pc = "return"

\* C30: a candidate at a grid distance of 50 or more, or at a distance
\* that cannot be computed, scores at most 58 whatever the names are, and
\* find_matching_field does not return it.
PenalisedCandidateNeverAccepted ==
  FarApart(calc.index1, calc.index2) =>
    /\ ScoreReturned =>
         /\ calc.score <= 58 * ScoreUnit
         /\ calc.score < MATCH_SCORE_THRESHOLD * ScoreUnit
    /\ FindReturned => (calc.match = NoMatch /\ calc.score <= 58 * ScoreUnit)

\* A far candidate with the name of the observation was scored 58 and was
\* not returned.
SameNameFarAwayRejected ==
  /\ FindReturned
  /\ calc.name1 = AlphaField /\ calc.name2 = AlphaField
  /\ FarApart(calc.index1, calc.index2)
  /\ calc.score = 58 * ScoreUnit
  /\ calc.match = NoMatch

\* process_attribute has returned.
AttributeReturned == calc.fn = "process_attribute" /\ calc.pc = "return"

\* Two results are the same number, or both are None.
SameNumber(a, b) ==
  IF a.den = 0 \/ b.den = 0 THEN a.den = b.den
  ELSE a.num * b.den = b.num * a.den

\* The observations that carry both the value and the oil production.
AlignedPairs(records) ==
  SelectSeq(records, LAMBDA o : o.value # NoValue /\ o.oil_prod # NoValue)

\* C22: for a volume_weighted rule the result is sum(value * weight) /
\* sum(weight) over the observations that carry both the value and the
\* weight, each value weighted by the oil production of its own observation.
VolumeWeightedByObservation ==
  (AttributeReturned /\ calc.rule.function = "volume_weighted"
     /\ calc.rule.round = "none")
    => LET pairs == AlignedPairs(calc.records)
           total == SeqSum([k \in 1..Len(pairs) |-> pairs[k].oil_prod])
           weighted == SeqSum([k \in 1..Len(pairs) |-> pairs[k].value * pairs[k].oil_prod])
       IN  total > 0 => SameNumber(calc.result, [num |-> weighted, den |-> total])

\* The values of a list in ascending order.
Sorted(values) ==
  CHOOSE s \in [1..Len(values) -> {values[k] : k \in 1..Len(values)}] :
    /\ \A k \in 1..(Len(s) - 1) : s[k] <= s[k + 1]
    /\ \A v \in {values[k] : k \in 1..Len(values)} : SeqCount(s, v) = SeqCount(values, v)

\* The median of a list that is not empty.
Median(values) ==
  LET s == Sorted(values)
      n == Len(s)
  IN  IF n % 2 = 1 THEN Whole(s[(n + 1) \div 2])
      ELSE [num |-> s[n \div 2] + s[n \div 2 + 1], den |-> 2]

\* The literal reduction a method names.
Reduction(method, values) ==
  CASE method = "median" -> Median(values)
    [] method = "sum" -> Whole(SeqSum(values))
    [] method = "min" -> Whole(SetMin({values[k] : k \in 1..Len(values)}))
    [] method = "max" -> Whole(SetMax({values[k] : k \in 1..Len(values)}))
    [] method = "first" -> Whole(values[1])
    [] method = "last" -> Whole(values[Len(values)])

\* C23: for a rule whose method is median, sum, min, max, first or last the
\* result is that reduction of the non-null values of the attribute.
LiteralReductions ==
  (AttributeReturned /\ calc.rule.function = "none" /\ calc.rule.round = "none"
     /\ calc.rule.method \in {"median", "sum", "min", "max", "first", "last"})
    => LET values == ExtractValuesInOrder(calc.records, "value")
       IN  values # <<>> => SameNumber(calc.result, Reduction(calc.rule.method, values))

\* update_field_h3_indices has returned or raised.
FillEnded == calc.fn = "update_field_h3_indices" /\ calc.pc = "return"

\* C25: update_field_h3_indices on a geometry that is neither a polygon nor
\* a multipolygon does not return normally: it raises to its caller.
UnsupportedGeometryIsSignalled ==
  (FillEnded /\ calc.geom # NoGeom
     /\ calc.geom.kind \notin {"polygon", "multipolygon"})
    => calc.exit = "raise"

====
